---- MODULE Spec2Model ----
(***************************************************************************)
(* Model of src/image-helpers.js (class ImageHelpers): the board-image     *)
(* compositing pipeline createBoardImage / combineThree / combineTwo /     *)
(* paste / writeFile over a file system.                                   *)
(*                                                                         *)
(* An image is abstracted to its geometry: width, height and the list of   *)
(* source regions pasted into it (which source, at which offset, of which  *)
(* size).  Pixel values and JPEG coding losses are not modelled.           *)
(* One createBoardImage call is in progress at a time (the caller          *)
(* serialises calls); each promise continuation is one action.             *)
(***************************************************************************)
EXTENDS Integers, Sequences, FiniteSets, TLC

\* ---------------------------------------------------------------- bounds
MaxCards == 6        \* longest card list handed to createBoardImage
MaxWidth == 2        \* widest card asset, in pixels
MaxHeight == 2       \* tallest card asset, in pixels

\* ------------------------------------------------------------ file names
DeckSeq == <<"2h", "9s", "Kd", "7c", "Ah">>
Deck == {DeckSeq[i] : i \in 1..Len(DeckSeq)}

\* `resources/${c}.jpeg`
ResourceFile(c) == <<"resources", c>>
\* './output/<stage>.jpeg'
OutputFile(s) == <<"output", s>>
Stages == {"flop", "turn", "river"}
Paths == {ResourceFile(c) : c \in Deck} \cup {OutputFile(s) : s \in Stages}

\* --------------------------------------------------------------- images
\* content of a path at which there is no file
NoFile == [w |-> 0, h |-> 0, parts |-> <<>>]
NoPath == <<"none", "none">>

\* the asset of card c: one region, itself
CardImage(c, w, h) ==
  [w |-> w, h |-> h,
   parts |-> << [src |-> c, x |-> 0, y |-> 0, w |-> w, h |-> h] >>]

\* width of the asset of the i-th card of the deck
CardWidth(i) == (i % MaxWidth) + 1

\* the deals the caller may pass, as rotations of the deck
Deals == {0, 1}

\* the n-card list of deal d
Hand(d, n) == [i \in 1..n |-> DeckSeq[((i - 1 + d) % Len(DeckSeq)) + 1]]

VARIABLES
  files,        \* the file system: path -> image stored there, or NoFile
  outputDir,    \* whether ./output exists
  pc,           \* position of the call in progress
  cards,        \* createBoardImage's argument
  fn,           \* which combinator the switch selected
  args,         \* the imageFiles array given to that combinator
  phase,        \* 1 or 2: which combineTwo of the call is running
  imageFiles,   \* combineTwo's imageFiles (two paths)
  outputFile,   \* combineTwo's outputFile
  images,       \* combineTwo's images array
  destImage,    \* the canvas flowing down combineTwo's promise chain
  outcome,      \* how the call's promise settled
  log,          \* the codec and file operations the call has performed
  pre,          \* the file system as it was when the call was made
  repeat        \* the call repeats the call before it, which succeeded

vars == <<files, outputDir, pc, cards, fn, args, phase, imageFiles, outputFile,
          images, destImage, outcome, log, pre, repeat>>

callVars == <<cards, fn, args, pre, repeat, outputDir>>

\* ------------------------------------------------------- codec operations
\* lwip.open: the image stored at path p; fails when there is none
OpenOk(p) == p \in Paths /\ files[p] # NoFile

ShiftParts(ps, dx, dy) ==
  [i \in 1..Len(ps) |-> [ps[i] EXCEPT !.x = @ + dx, !.y = @ + dy]]

\* lwip.create(width, height, 'white'): an empty canvas
CreateImage(w, h) == [w |-> w, h |-> h, parts |-> <<>>]

\* dest.paste(x, y, src, cb): lwip rejects a source that exceeds the canvas
PasteOk(src, dest, x, y) == x + src.w <= dest.w /\ y + src.h <= dest.h

PasteResult(src, dest, x, y) ==
  [dest EXCEPT !.parts = @ \o ShiftParts(src.parts, x, y)]

\* one entry of the operation log
Event(op, path, x, y, w, h, ok) ==
  [op |-> op, path |-> path, x |-> x, y |-> y, w |-> w, h |-> h, ok |-> ok]

\* -------------------------------------------------------------- dispatch
\* cards.map((c) => `resources/${c}.jpeg`)
MapFiles(cs) == [i \in 1..Len(cs) |-> ResourceFile(cs[i])]

\* variant: the river composed from the turn's output file
CaseRiver_FromTurn(f) ==
  [fn |-> "combineThree", files |-> <<OutputFile("turn"), f[4], f[5]>>,
   out |-> OutputFile("river")]

\* variant: the river written over the turn's output file
CaseRiver_IntoTurn(f) ==
  [fn |-> "combineThree", files |-> <<OutputFile("flop"), f[4], f[5]>>,
   out |-> OutputFile("turn")]

\* variant: the turn written back over the flop's output file
CaseTurn_IntoFlop(f) ==
  [fn |-> "combineTwo", files |-> <<OutputFile("flop"), f[4]>>,
   out |-> OutputFile("flop")]

\* variant: the turn composed from the last two card assets
CaseTurn_FromCards(f) ==
  [fn |-> "combineTwo", files |-> <<f[3], f[4]>>, out |-> OutputFile("turn")]

\* case 3: combineThree(imageFiles, './output/flop.jpeg')
CaseFlop(f) ==
  [fn |-> "combineThree", files |-> f, out |-> OutputFile("flop")]

\* case 4: combineTwo(['./output/flop.jpeg', imageFiles[3]], './output/turn.jpeg')
CaseTurn(f) ==
  [fn |-> "combineTwo", files |-> <<OutputFile("flop"), f[4]>>,
   out |-> OutputFile("turn")]

\* case 5: combineThree(['./output/flop.jpeg', imageFiles[3], imageFiles[4]],
\*                      './output/river.jpeg')
CaseRiver(f) ==
  [fn |-> "combineThree", files |-> <<OutputFile("flop"), f[4], f[5]>>,
   out |-> OutputFile("river")]

\* no case matches: the function returns undefined
NoCase == [fn |-> "none", files |-> <<>>, out |-> NoPath]

\* the switch on cards.length
Dispatch(cs) ==
  LET f == MapFiles(cs) IN
  CASE Len(cs) = 3 -> CaseFlop(f)
    [] Len(cs) = 4 -> CaseTurn(f)
    [] Len(cs) = 5 -> CaseRiver(f)
    [] OTHER -> NoCase

\* imageFiles.slice(0, 2)
FirstPair(fs) == SubSeq(fs, 1, 2)

\* variant: the third image to the left of the first composite
SecondPair_Swapped(fs, out) == <<fs[3], out>>

\* [outputFile, imageFiles[2]]
SecondPair(fs, out) == <<out, fs[3]>>

\* ------------------------------------------------------------------ Init
Init ==
  /\ \E missing \in {S \in SUBSET Deck : Cardinality(S) <= 1},
        tall \in {S \in SUBSET Deck : Cardinality(S) <= 1} :
       files = [p \in Paths |->
                  IF p[1] = "output" \/ p[2] \in missing THEN NoFile
                  ELSE LET i == CHOOSE k \in 1..Len(DeckSeq) : DeckSeq[k] = p[2]
                       IN CardImage(p[2], CardWidth(i),
                                    IF p[2] \in tall THEN MaxHeight ELSE 1)]
  /\ outputDir = FALSE
  /\ pc = "idle"
  /\ cards = <<>>
  /\ fn = "none"
  /\ args = <<>>
  /\ phase = 1
  /\ imageFiles = <<>>
  /\ outputFile = NoPath
  /\ images = <<>>
  /\ destImage = NoFile
  /\ outcome = "none"
  /\ log = <<>>
  /\ pre = files
  /\ repeat = FALSE

\* --------------------------------------------------------------- actions
\* variant: combineThree swallows a failure of its first combineTwo
Reject_Swallowed(err) ==
  IF fn = "combineThree" /\ phase = 1
    THEN pc' = "then" /\ outcome' = outcome
    ELSE pc' = "done" /\ outcome' = err

\* the promise chain rejects: every later continuation is skipped
Reject(err) ==
  /\ pc' = "done"
  /\ outcome' = err

\* createBoardImage(cards), up to the first openImage of the selected chain
CreateBoardImage ==
  /\ pc \in {"idle", "done"}
  /\ \E d \in Deals, n \in 0..MaxCards :
       LET cs == Hand(d, n)
           sel == Dispatch(cs)
       IN /\ cards' = cs
          /\ fn' = sel.fn
          /\ args' = sel.files
          /\ outputFile' = sel.out
          /\ imageFiles' = IF sel.fn = "combineThree" THEN FirstPair(sel.files)
                           ELSE sel.files
          /\ IF sel.fn = "none"
               THEN pc' = "done" /\ outcome' = "NoResult"
               ELSE pc' = "open0" /\ outcome' = "pending"
  /\ outputDir' = TRUE
  /\ phase' = 1
  /\ images' = <<>>
  /\ destImage' = NoFile
  /\ log' = <<>>
  /\ pre' = files
  /\ repeat' = (cards' = cards /\ outcome = "ok")
  /\ UNCHANGED files

\* openImage(imageFiles[0]) settles
OpenFirst ==
  /\ pc = "open0"
  /\ LET p == imageFiles[1] ok == OpenOk(p) IN
       /\ log' = Append(log, Event("open", p, 0, 0, 0, 0, ok))
       /\ IF ok
            THEN /\ images' = Append(images, files[p])
                 /\ pc' = "open1"
                 /\ UNCHANGED outcome
            ELSE /\ Reject("ImageOpenError")
                 /\ UNCHANGED images
  /\ UNCHANGED <<files, phase, imageFiles, outputFile, destImage>>
  /\ UNCHANGED callVars

\* openImage(imageFiles[1]) settles
OpenSecond ==
  /\ pc = "open1"
  /\ LET p == imageFiles[2] ok == OpenOk(p) IN
       /\ log' = Append(log, Event("open", p, 0, 0, 0, 0, ok))
       /\ IF ok
            THEN /\ images' = Append(images, files[p])
                 /\ pc' = "create"
                 /\ UNCHANGED outcome
            ELSE /\ Reject("ImageOpenError")
                 /\ UNCHANGED images
  /\ UNCHANGED <<files, phase, imageFiles, outputFile, destImage>>
  /\ UNCHANGED callVars

\* variant: the canvas sized as if both images were as wide as the first
CanvasWidth_TwiceFirst(imgs) == 2 * imgs[1].w

\* width and height handed to createImage
CanvasWidth(imgs) == imgs[1].w + imgs[2].w
CanvasHeight(imgs) == imgs[1].h

\* createImage(...) settles; the library may fail to allocate
CreateCanvas ==
  /\ pc = "create"
  /\ \E ok \in BOOLEAN :
       LET w == CanvasWidth(images) h == CanvasHeight(images) IN
       /\ log' = Append(log, Event("create", NoPath, 0, 0, w, h, ok))
       /\ IF ok
            THEN /\ destImage' = CreateImage(w, h)
                 /\ pc' = "paste0"
                 /\ UNCHANGED outcome
            ELSE /\ Reject("CreateError")
                 /\ UNCHANGED destImage
  /\ UNCHANGED <<files, phase, imageFiles, outputFile, images>>
  /\ UNCHANGED callVars

\* variant: the second image offset by its own width
SecondOffset_OwnWidth(imgs) == imgs[2].w

\* x-offsets of the two pastes
FirstOffset(imgs) == 0
SecondOffset(imgs) == imgs[1].w

\* one ImageHelpers.paste(src, dest, x, y) settling
PasteStep(src, x, y, next) ==
  LET ok == PasteOk(src, destImage, x, y) IN
  /\ log' = Append(log, Event("paste", NoPath, x, y, src.w, src.h, ok))
  /\ IF ok
       THEN /\ destImage' = PasteResult(src, destImage, x, y)
            /\ pc' = next
            /\ UNCHANGED outcome
       ELSE /\ Reject("PasteError")
            /\ UNCHANGED destImage
  /\ UNCHANGED <<files, phase, imageFiles, outputFile, images>>
  /\ UNCHANGED callVars

PasteFirst ==
  /\ pc = "paste0"
  /\ PasteStep(images[1], FirstOffset(images), 0, "paste1")

PasteSecond ==
  /\ pc = "paste1"
  /\ PasteStep(images[2], SecondOffset(images), 0, "write")

\* where the chain goes once writeFile has resolved
AfterWrite == IF fn = "combineThree" /\ phase = 1 THEN "then" ELSE "done"

\* the file system after img.writeFile(outputFile) succeeded
Written(fsys, path, img) == [fsys EXCEPT ![path] = img]

\* ImageHelpers.writeFile(destImage, outputFile) settles; the write may fail
WriteOutput ==
  /\ pc = "write"
  /\ \E diskOk \in BOOLEAN :
       LET ok == diskOk /\ outputDir IN
       /\ log' = Append(log, Event("write", outputFile, 0, 0,
                                   destImage.w, destImage.h, ok))
       /\ IF ok
            THEN /\ files' = Written(files, outputFile, destImage)
                 /\ pc' = AfterWrite
                 /\ outcome' = IF AfterWrite = "done" THEN "ok" ELSE outcome
            ELSE /\ Reject("WriteError")
                 /\ UNCHANGED files
  /\ UNCHANGED <<phase, imageFiles, outputFile, images, destImage>>
  /\ UNCHANGED callVars

\* combineThree's .then: the second combineTwo starts
ThenCombine ==
  /\ pc = "then"
  /\ phase' = 2
  /\ imageFiles' = SecondPair(args, outputFile)
  /\ images' = <<>>
  /\ pc' = "open0"
  /\ UNCHANGED <<files, outputFile, destImage, outcome, log>>
  /\ UNCHANGED callVars

Next ==
  \/ CreateBoardImage
  \/ OpenFirst
  \/ OpenSecond
  \/ CreateCanvas
  \/ PasteFirst
  \/ PasteSecond
  \/ WriteOutput
  \/ ThenCombine

Spec == Init /\ [][Next]_vars

\* ============================================================ properties
CardCount == Len(cards)
ValidCount == CardCount \in {3, 4, 5}
Flop == OutputFile("flop")
Turn == OutputFile("turn")
River == OutputFile("river")

\* the fixed output path of the stage of an n-card board
StageFile(n) ==
  CASE n = 3 -> Flop [] n = 4 -> Turn [] n = 5 -> River [] OTHER -> NoPath

\* the images a board of the given cards is made of, left to right: a flop
\* of its three cards, a turn or river of the flop composite and the new cards
Constituents(cs) ==
  CASE Len(cs) = 3 -> <<ResourceFile(cs[1]), ResourceFile(cs[2]), ResourceFile(cs[3])>>
    [] Len(cs) = 4 -> <<Flop, ResourceFile(cs[4])>>
    [] Len(cs) = 5 -> <<Flop, ResourceFile(cs[4]), ResourceFile(cs[5])>>
    [] OTHER -> <<>>

RECURSIVE SumWidths(_, _)
SumWidths(fsys, ps) ==
  IF ps = <<>> THEN 0 ELSE fsys[Head(ps)].w + SumWidths(fsys, Tail(ps))

AllPresent(fsys, ps) == \A i \in 1..Len(ps) : fsys[ps[i]] # NoFile
CommonHeight(fsys, ps) == \A i \in 1..Len(ps) : fsys[ps[i]].h = fsys[ps[1]].h

\* reference: the images stored at ps laid side by side, left to right
RECURSIVE ConcatParts(_, _, _)
ConcatParts(fsys, ps, x) ==
  IF ps = <<>> THEN <<>>
  ELSE ShiftParts(fsys[Head(ps)].parts, x, 0)
         \o ConcatParts(fsys, Tail(ps), x + fsys[Head(ps)].w)

Concatenation(fsys, ps) ==
  [w |-> SumWidths(fsys, ps), h |-> fsys[ps[1]].h, parts |-> ConcatParts(fsys, ps, 0)]

Succeeded == pc = "done" /\ outcome = "ok"
WrittenPaths == {log[i].path : i \in {k \in 1..Len(log) : log[k].op = "write" /\ log[k].ok}}
ChangedPaths == {p \in Paths : files[p] # pre[p]}
Failed(op) == \E i \in 1..Len(log) : log[i].op = op /\ ~log[i].ok

\* C1: a successful call with 3, 4 or 5 cards whose inputs are present and
\* equally tall has written exactly one file, at the path of its stage, as
\* wide as its constituent images together and as tall as they are.
C1_OutputGeometry ==
  (Succeeded /\ ValidCount /\ AllPresent(pre, Constituents(cards))
     /\ CommonHeight(pre, Constituents(cards)))
  => /\ WrittenPaths = {StageFile(CardCount)}
     /\ ChangedPaths \subseteq {StageFile(CardCount)}
     /\ files[StageFile(CardCount)] # NoFile
     /\ files[StageFile(CardCount)].w = SumWidths(pre, Constituents(cards))
     /\ files[StageFile(CardCount)].h = pre[Constituents(cards)[1]].h

C1_Witness ==
  /\ Succeeded /\ CardCount = 4
  /\ CommonHeight(pre, Constituents(cards))
  /\ files[Turn].w = pre[Flop].w + pre[ResourceFile(cards[4])].w
  /\ Len(pre[Flop].parts) = 3

IsOpenOf(i, p) == Len(log) >= i => (log[i].op = "open" /\ log[i].path = p)

\* C2 as stated: a 5-card call opens output/turn.jpeg first.
C2_RiverReadsTurn ==
  (CardCount = 5 /\ pc # "idle") => IsOpenOf(1, Turn)

\* C2, amended: a 5-card call composes the river from output/flop.jpeg, then
\* the images of cards[3] and cards[4], writing only output/river.jpeg; the
\* 4-card call reads output/flop.jpeg as well.
C2_RiverReadsFlop ==
  /\ (CardCount = 5 /\ pc # "idle") =>
       /\ IsOpenOf(1, Flop)
       /\ IsOpenOf(2, ResourceFile(cards[4]))
       /\ IsOpenOf(7, River)
       /\ IsOpenOf(8, ResourceFile(cards[5]))
       /\ \A i \in 1..Len(log) :
            log[i].op = "open" =>
              log[i].path \in {Flop, River, ResourceFile(cards[4]), ResourceFile(cards[5])}
       /\ \A i \in 1..Len(log) : log[i].op = "write" => log[i].path = River
       /\ (Succeeded /\ CommonHeight(pre, Constituents(cards)))
            => files[River] = Concatenation(pre, <<Flop, ResourceFile(cards[4]), ResourceFile(cards[5])>>)
  /\ (CardCount = 4 /\ pc # "idle") =>
       /\ IsOpenOf(1, Flop)
       /\ IsOpenOf(2, ResourceFile(cards[4]))

C2_Witness ==
  /\ Succeeded /\ CardCount = 5 /\ Len(log) = 12
  /\ log[1].path = Flop /\ log[1].ok
  /\ pre[Turn] = NoFile

\* C3 as stated: a call with a card count other than 3, 4 or 5 yields an
\* InvalidCardCount error and writes no file.
C3_InvalidCountIsError ==
  (pc = "done" /\ ~ValidCount) => (outcome = "InvalidCardCount" /\ files = pre)

\* C4 as stated: when a card of the list has no asset (and nothing else goes
\* wrong) the call fails with an image-open error and the stage's path holds
\* what it held before the call.
C4_MissingAssetLeavesNoFile ==
  (/\ pc = "done" /\ ValidCount
   /\ \E i \in 1..CardCount : pre[ResourceFile(cards[i])] = NoFile
   /\ ~Failed("create") /\ ~Failed("paste") /\ ~Failed("write"))
  => /\ outcome = "ImageOpenError"
     /\ files[StageFile(CardCount)] = pre[StageFile(CardCount)]

\* C5: a successful call that repeats the successful call before it leaves
\* the stage's file, and the whole file system, as the first run left it.
C5_Idempotent ==
  (Succeeded /\ repeat) =>
    /\ files[StageFile(CardCount)] # NoFile
    /\ files = pre

C5_Witness ==
  Succeeded /\ repeat /\ CardCount = 3 /\ Len(log) = 12 /\ files[Flop].w >= 4

\* C6: a successful combineThree call is combineTwo on files 0 and 1 into
\* out, then combineTwo on out and file 2 into out, and leaves in out the
\* three equally tall inputs side by side in order, whatever out held before.
C6_ThreeIsConcatenation ==
  (Succeeded /\ CardCount \in {3, 5} /\ CommonHeight(pre, Constituents(cards)))
  => LET in == Constituents(cards) out == StageFile(CardCount) IN
     /\ Len(log) = 12
     /\ IsOpenOf(1, in[1]) /\ IsOpenOf(2, in[2])
     /\ log[6].op = "write" /\ log[6].path = out
     /\ IsOpenOf(7, out) /\ IsOpenOf(8, in[3])
     /\ log[12].op = "write" /\ log[12].path = out
     /\ files[out] = Concatenation(pre, in)

C6_Witness ==
  /\ Succeeded /\ CardCount = 3 /\ CommonHeight(pre, Constituents(cards))
  /\ pre[Flop] # NoFile /\ pre[Flop] # files[Flop]
  /\ Len(files[Flop].parts) = 3

\* C7 as stated: the 5-card call needs output/turn.jpeg, and stage files
\* appear in the order flop, turn, river.
C7_StrictForwardOrder ==
  /\ (pc = "done" /\ CardCount = 5 /\ pre[Turn] = NoFile)
       => (outcome = "ImageOpenError" /\ files = pre)
  /\ files[River] # NoFile => files[Turn] # NoFile
  /\ files[Turn] # NoFile => files[Flop] # NoFile

\* C7, amended: the stage file a 4-card or 5-card call reads is
\* output/flop.jpeg; an output file is opened successfully only if it was
\* there; without output/flop.jpeg such a call fails at its first open and
\* writes nothing; so turn.jpeg and river.jpeg exist only once flop.jpeg
\* does, and each begins with the flop composite it consumed.
C7_FlopFirst ==
  /\ \A i \in 1..Len(log) :
       (log[i].op = "open" /\ log[i].ok /\ log[i].path[1] = "output")
         => IF i <= 6 THEN pre[log[i].path] # NoFile
            ELSE log[6].op = "write" /\ log[6].ok /\ log[6].path = log[i].path
  /\ (pc = "done" /\ CardCount \in {4, 5} /\ pre[Flop] = NoFile)
       => (outcome = "ImageOpenError" /\ Len(log) = 1 /\ files = pre)
  /\ (files[Turn] # NoFile \/ files[River] # NoFile) => files[Flop] # NoFile
  /\ (Succeeded /\ CardCount \in {4, 5})
       => LET made == files[StageFile(CardCount)].parts
              used == pre[Flop].parts
          IN Len(made) > Len(used) /\ SubSeq(made, 1, Len(used)) = used

C7_Witness ==
  /\ Succeeded /\ CardCount = 5
  /\ files[River] # NoFile /\ files[Turn] = NoFile /\ files[Flop] # NoFile

\* the six operations of the combineTwo that has just written
LastSix == SubSeq(log, Len(log) - 5, Len(log))
JustWritten == pc = "then" \/ Succeeded

\* C8: a combineTwo that has written opened files[0] then files[1], made a
\* canvas as wide as both and as tall as the first, pasted the first at
\* (0,0) and the second at (width of the first, 0), so that they tile the
\* canvas left to right, and replaced the file at out by that canvas.
C8_CombineTwoLayout ==
  JustWritten =>
    LET e == LastSix IN
    /\ Len(log) >= 6
    /\ e[1].op = "open" /\ e[1].path = imageFiles[1] /\ e[1].ok
    /\ e[2].op = "open" /\ e[2].path = imageFiles[2] /\ e[2].ok
    /\ e[3].op = "create" /\ e[3].w = images[1].w + images[2].w /\ e[3].h = images[1].h
    /\ e[4].op = "paste" /\ e[4].x = 0 /\ e[4].y = 0 /\ e[4].w = images[1].w
    /\ e[5].op = "paste" /\ e[5].x = images[1].w /\ e[5].y = 0 /\ e[5].w = images[2].w
    /\ e[4].x + e[4].w = e[5].x /\ e[5].x + e[5].w = e[3].w
    /\ e[6].op = "write" /\ e[6].path = outputFile /\ e[6].ok
    /\ destImage.parts = images[1].parts \o ShiftParts(images[2].parts, images[1].w, 0)
    /\ files[outputFile] = destImage

C8_Witness ==
  /\ Succeeded /\ CardCount = 4
  /\ pre[Turn] # NoFile /\ pre[Turn] # files[Turn]
  /\ images[1].w # images[2].w

ExpectedOp(i) == <<"open", "open", "create", "paste", "paste", "write">>[((i - 1) % 6) + 1]
ErrorOf(op) ==
  CASE op = "open" -> "ImageOpenError" [] op = "create" -> "CreateError"
    [] op = "paste" -> "PasteError" [] op = "write" -> "WriteError"
Errors == {"ImageOpenError", "CreateError", "PasteError", "WriteError"}

\* C9: the operations of a call run in the fixed order open, open, create,
\* paste, paste, write (twice over in combineThree, the second round only
\* after the first write succeeded); nothing runs after a failed operation,
\* nothing runs twice, and the call settles with exactly the first error, or
\* with success once every operation has succeeded.
C9_FailFast ==
  /\ \A i \in 1..Len(log) : log[i].op = ExpectedOp(i)
  /\ \A i \in 1..(Len(log) - 1) : log[i].ok
  /\ Len(log) <= (IF CardCount \in {3, 5} THEN 12 ELSE IF CardCount = 4 THEN 6 ELSE 0)
  /\ (Len(log) > 0 /\ ~log[Len(log)].ok)
       => (pc = "done" /\ outcome = ErrorOf(log[Len(log)].op))
  /\ outcome \in Errors => (pc = "done" /\ Len(log) > 0 /\ ~log[Len(log)].ok)
  /\ outcome = "ok"
       => /\ pc = "done"
          /\ Len(log) = (IF CardCount = 4 THEN 6 ELSE 12)
          /\ \A i \in 1..Len(log) : log[i].ok
  /\ (pc \notin {"idle", "done"}) => outcome = "pending"
  /\ pc = "done" => outcome \in Errors \cup {"ok", "NoResult"}

C9_Witness ==
  /\ pc = "done" /\ outcome = "PasteError" /\ Len(log) = 11
  /\ files[StageFile(CardCount)] # pre[StageFile(CardCount)]

\* C10: at every point of a call, every file other than the output file of
\* the call's own stage (each card asset, each other stage's output) is as
\* it was when the call was made.
C10_Frame ==
  \A p \in Paths : p # StageFile(CardCount) => files[p] = pre[p]

C10_Witness ==
  /\ pc = "done" /\ outcome = "WriteError" /\ CardCount = 5 /\ Len(log) = 12
  /\ files[River] # pre[River]
  /\ pre[Turn] # NoFile /\ files[Turn] = pre[Turn] /\ files[Flop] = pre[Flop]

====
